---- MODULE Spec2Model ----
(***************************************************************************)
(* Multi-object search (2D grid world): the transition models of           *)
(* models/transition_model.py, the joint state of domain/state.py and the  *)
(* fan-shaped laser sensor of models/sensor.py.                            *)
(*                                                                         *)
(* Conventions of this development.                                        *)
(*  - Angles are integers counting quarter turns (pi/2), so 2*pi is TwoPi  *)
(*    = 4; the headings of the xy motion scheme (0, pi/2, pi, 3*pi/2) and  *)
(*    their cosines are then exact.  Bearings of the sensor are kept in    *)
(*    micro-radians and rounded to hundredths of a radian as round(b, 2)   *)
(*    does; the table Atan2Table holds math.atan2 for the grid offsets.    *)
(*  - A distance is kept as its square (an integer); every comparison of   *)
(*    the source (dist < min_range, dist > max_range, dist < other dist)   *)
(*    is a comparison of squares.                                          *)
(*  - A Python exception is a result [exc |-> <its class>, val |-> ...];   *)
(*    exc = "None" is a normal return.                                     *)
(*  - Names the source leaves unbound are read as the definition of that   *)
(*    name in the same file: self.valid_pose(.., env_state=env_state) is   *)
(*    valid_pose(.., state=state) of transition_model.py:166,              *)
(*    copy.deepcopy is a copy of the value, M3OOState is the joint state   *)
(*    of domain/state.py, valid_beam((dist, bearing)) is                   *)
(*    valid_beam(dist, bearing).  The logic of each function is modelled   *)
(*    as written, its slips included (the cosine in the y update of the    *)
(*    vw scheme, the range test of valid_beam, the point stored where an   *)
(*    id is read back in the beam map).                                    *)
(***************************************************************************)
EXTENDS Integers, FiniteSets, Sequences, TLC

\* ---------------------------------------------------------------- bounds
\* dim = (width, length) of the world handed to RobotTransitionModel.
Width == 3
Length == 3

\* 2*math.pi, in quarter turns.
TwoPi == 4

\* ----------------------------------------------------------------- state
VARIABLES
    state,        \* the joint state: object id -> ObjectState / RobotState
    prev_state,   \* the joint state the last transition call was given
    action,       \* the action the last transition call was given
    op,           \* "init", "sample" or "argmax": the last call
    outcome,      \* the exception class the last call raised, or "None"
    sensor,       \* the Laser2DSensor the models are built with
    beam_map_default,  \* the default beam_map={} of _build_beam_map: one
                       \* dict, made when the function is defined
    obs_in,       \* the last observe call: [robot_pose, env, order]
    obs_out,      \* the Observation it returned
    first_in,     \* the first observe call on this sensor
    first_out,    \* the Observation it returned
    between,      \* an observe call on a disjoint set of objects was made
                  \* after the first one
    likelihood,   \* the last probability call: [model, candidate, action,
                  \* exc, val]
    threads       \* the calls in progress on the shared joint state

transition_vars == <<state, prev_state, action, op, outcome>>
sensor_vars == <<beam_map_default, obs_in, obs_out, first_in, first_out, between>>
call_vars == <<likelihood, threads>>
vars == <<transition_vars, sensor, sensor_vars, call_vars>>

\* sensor.robot_id: the id of the robot the sensor is mounted on.
robot_id == "robot"

\* The ids of the static objects (object_ids of MosTransitionModel).
ObjIds == {"t1", "t2"}

Ids == ObjIds \cup {robot_id}

None == "None"

\* domain/state.py: ObjectState(objid, objclass, pose)
ObjectState(objid, objclass, pose) ==
    [id |-> objid, objclass |-> objclass, pose |-> pose]

\* domain/state.py: RobotState(robot_id, pose, objects_found, camera_direction)
RobotState(rid, pose, objects_found, camera_direction) ==
    [id |-> rid, objclass |-> "robot", pose |-> pose,
     objects_found |-> objects_found, camera_direction |-> camera_direction]

\* MosOOState.object_poses: the poses of every object but the robot.
object_poses(s) ==
    [objid \in (DOMAIN s) \ {robot_id} |-> s[objid].pose]

\* MosOOState.pose(objid)
pose_of(s, objid) == s[objid].pose

\* --------------------------------------------------------------- actions
\* An action is a record [type, name, scheme, motion, is_motion]; motion =
\* <<>> is Python's None.  type "Other" is an action that is none of Motion,
\* Look, Find.  is_motion says whether the action's class derives from
\* MotionAction: a Motion does, a Find does not, and a Look that carries a
\* rotation is taken both ways.
MotionAction(scheme, motion) ==
    [type |-> "Motion", name |-> "move", scheme |-> scheme, motion |-> motion,
     is_motion |-> TRUE]

LookAction(name, scheme, motion, is_motion) ==
    [type |-> "Look", name |-> name, scheme |-> scheme, motion |-> motion,
     is_motion |-> is_motion]

FindAction ==
    [type |-> "Find", name |-> "find", scheme |-> None, motion |-> <<>>,
     is_motion |-> FALSE]

OtherAction ==
    [type |-> "Other", name |-> "noop", scheme |-> None, motion |-> <<>>,
     is_motion |-> FALSE]

\* isinstance(action, MotionAction), as _if_move_by asks it.
IsMotionAction(a) == a.is_motion

\* The headings of the xy scheme and two that in_boundary must refuse
\* (-1 and TwoPi + 1); TwoPi itself is the heading 2*pi.
XYMotions ==
    {<<1, 0, 0>>, <<-1, 0, 2>>, <<0, -1, 3>>, <<0, 1, 1>>,
     <<0, 0, TwoPi>>, <<0, 0, TwoPi + 1>>, <<0, 0, -1>>}

\* (forward, angle) of the vw scheme.
VWMotions == {<<1, 0>>, <<0, 1>>, <<0, -1>>}

Actions ==
    {MotionAction("xy", m) : m \in XYMotions}
    \cup {MotionAction("vw", m) : m \in VWMotions}
    \cup {LookAction("look", None, <<>>, FALSE),
          LookAction("look+thz", "xy", <<0, 0, 1>>, TRUE),
          LookAction("look+thz", "xy", <<0, 0, TwoPi + 1>>, TRUE),
          LookAction("look+thz", "xy", <<0, 0, 1>>, FALSE),
          FindAction, OtherAction}

\* -------------------------------------------------------------- geometry
\* math.cos of a heading given in quarter turns.
Cos(th) == CASE th % TwoPi = 0 -> 1
             [] th % TwoPi = 1 -> 0
             [] th % TwoPi = 2 -> -1
             [] OTHER -> 0

\* A boundary that takes x = width and y = length in.
in_boundary_inclusive(pose, width, length) ==
    /\ pose[1] >= 0 /\ pose[1] <= width
    /\ pose[2] >= 0 /\ pose[2] <= length
    /\ Len(pose) = 3 => (pose[3] >= 0 /\ pose[3] <= TwoPi)

\* transition_model.py: in_boundary(pose, width, length)
in_boundary(pose, width, length) ==
    LET x == pose[1]
        y == pose[2]
    IN  IF x >= 0 /\ x < width
        THEN IF y >= 0 /\ y < length
             THEN IF Len(pose) = 3
                  THEN LET th == pose[3]
                       IN  IF th < 0 \/ th > TwoPi THEN FALSE ELSE TRUE
                  ELSE TRUE
             ELSE FALSE
        ELSE FALSE

\* state=None of valid_pose: no joint state given.
NoState == <<>>

\* A validity check that looks at the boundary only.
valid_pose_no_collision(pose, width, length, s, check_collision) ==
    in_boundary(pose, width, length)

\* transition_model.py: valid_pose(pose, width, length, state, check_collision)
valid_pose(pose, width, length, s, check_collision) ==
    LET xy == <<pose[1], pose[2]>>
    IN  IF /\ check_collision
           /\ s # NoState
           /\ \E objid \in DOMAIN object_poses(s) : xy = object_poses(s)[objid]
        THEN FALSE
        ELSE in_boundary(pose, width, length)

\* The candidate pose of _if_move_by (lines 99-111) before it is validated.
candidate_pose(robot_pose, a) ==
    LET rx == robot_pose[1]
        ry == robot_pose[2]
        rth == robot_pose[3]
    IN  IF a.scheme = "xy"
        THEN <<rx + a.motion[1], ry + a.motion[2], a.motion[3]>>
        ELSE IF a.scheme = "vw"
        THEN LET forward == a.motion[1]
                 th == rth + a.motion[2]
             IN  <<rx + forward * Cos(th), ry + forward * Cos(th), th % TwoPi>>
        ELSE robot_pose

\* A motion that takes the candidate pose without asking valid_pose.
if_move_by_unchecked(s, a, check_collision) ==
    [exc |-> None, val |-> candidate_pose(pose_of(s, robot_id), a)]

\* RobotTransitionModel._if_move_by(state, action, check_collision=True)
if_move_by(s, a, check_collision) ==
    IF ~IsMotionAction(a)
    THEN [exc |-> "ValueError", val |-> <<>>]
    ELSE LET robot_pose == pose_of(s, robot_id)
             cand == candidate_pose(robot_pose, a)
         IN  IF valid_pose(cand, Width, Length, s, check_collision)
             THEN [exc |-> None, val |-> cand]
             ELSE [exc |-> None, val |-> robot_pose]

\* ---------------------------------------------------------------- sensor
\* math.pi / 2 and 2 * math.pi in micro-radians (shoot_beam works in radians).
HalfPiMicro == 1570796
TwoPiMicro == 6283185

\* fov / 2 for the 90 degree fan, in micro-radians.
FovHalfMicro == 785398

\* int(round(math.atan2(dy, dx) * 1e6)) for dy (rows) and dx (columns) in -4..4.
Atan2Table ==
    << <<-2356194, -2214297, -2034444, -1815775, -1570796, -1325818, -1107149, -927295, -785398>>,
       <<-2498092, -2356194, -2158799, -1892547, -1570796, -1249046, -982794, -785398, -643501>>,
       <<-2677945, -2553590, -2356194, -2034444, -1570796, -1107149, -785398, -588003, -463648>>,
       <<-2896614, -2819842, -2677945, -2356194, -1570796, -785398, -463648, -321751, -244979>>,
       <<3141593, 3141593, 3141593, 3141593, 0, 0, 0, 0, 0>>,
       <<2896614, 2819842, 2677945, 2356194, 1570796, 785398, 463648, 321751, 244979>>,
       <<2677945, 2553590, 2356194, 2034444, 1570796, 1107149, 785398, 588003, 463648>>,
       <<2498092, 2356194, 2158799, 1892547, 1570796, 1249046, 982794, 785398, 643501>>,
       <<2356194, 2214297, 2034444, 1815775, 1570796, 1325818, 1107149, 927295, 785398>> >>

\* math.atan2(dy, dx), in micro-radians.
Atan2(dy, dx) == Atan2Table[dy + 5][dx + 5]

\* round(bearing, 2), in hundredths of a radian.
Round2(bearing) == (bearing + 5000) \div 10000

\* Laser2DSensor.shoot_beam(robot_pose, point): <<dist, bearing>>, the
\* distance squared and the bearing in micro-radians, in [0, 2*pi).
shoot_beam(robot_pose, point) ==
    LET rx == robot_pose[1]
        ry == robot_pose[2]
        rth == robot_pose[3]
        dist == (point[1] - rx) * (point[1] - rx) + (point[2] - ry) * (point[2] - ry)
        bearing == (Atan2(point[2] - ry, point[1] - rx) - rth * HalfPiMicro) % TwoPiMicro
    IN  <<dist, bearing>>

\* Laser2DSensor.in_field_of_view: the bands [0, fov/2] and [2*pi - fov/2, 2*pi).
in_field_of_view(bearing) ==
    \/ 0 <= bearing /\ bearing <= FovHalfMicro
    \/ TwoPiMicro - FovHalfMicro <= bearing /\ bearing < TwoPiMicro

\* self._beams: round(k * angle_increment, 2) for the multiples of 5 degrees
\* inside the field of view, in hundredths of a radian.
Beams ==
    {0, 9, 17, 26, 35, 44, 52, 61, 70, 79,
     550, 559, 567, 576, 585, 593, 602, 611, 620}

\* The sensor a transition model is built with: [min_range, max_range,
\* occlusion_enabled] (ranges in grid units).
Sensor(min_range, max_range, occlusion_enabled) ==
    [min_range |-> min_range, max_range |-> max_range,
     occlusion_enabled |-> occlusion_enabled]

\* Laser2DSensor.within_range(robot_pose, point)
within_range(sn, robot_pose, point) ==
    LET beam == shoot_beam(robot_pose, point)
        dist == beam[1]
        bearing == beam[2]
    IN  IF dist < sn.min_range * sn.min_range
           \/ dist > sn.max_range * sn.max_range
        THEN FALSE
        ELSE IF ~in_field_of_view(bearing) THEN FALSE ELSE TRUE

\* self._gridworld.objects_within_view_range(robot_pose, object_poses):
\* the ids of the objects within the view range of the robot.
objects_within_view_range(sn, robot_pose, poses) ==
    {objid \in DOMAIN poses : within_range(sn, robot_pose, poses[objid])}

\* Laser2DSensor.valid_beam(dist, bearing)
valid_beam(sn, dist, bearing) ==
    \/ dist < sn.min_range * sn.min_range
    \/ /\ dist > sn.max_range * sn.max_range
       /\ Round2(bearing) \in Beams

\* d[k] = v on a dict.
Put(d, k, v) == [x \in (DOMAIN d) \cup {k} |-> IF x = k THEN v ELSE d[x]]

\* {}: the empty dict.
EmptyDict == <<>>

\* Laser2DSensor._build_beam_map(beam, point, beam_map): the beam map after
\* the call (bearing key -> <<dist, point>>).  valid is computed and not used.
build_beam_map(sn, beam, point, beam_map) ==
    LET dist == beam[1]
        bearing == beam[2]
        valid == valid_beam(sn, dist, bearing)
        bearing_key == Round2(bearing)
    IN  IF bearing_key \in DOMAIN beam_map
        THEN IF dist < beam_map[bearing_key][1]
             THEN Put(beam_map, bearing_key, <<dist, point>>)
             ELSE beam_map
        ELSE Put(beam_map, bearing_key, <<dist, point>>)

\* A key of the Observation's dict: an object id, or (what the beam map
\* hands back) a pose tuple.
IdKey(objid) == <<"id", objid>>
PointKey(point) == <<"point">> \o point

\* (rx + int(round(d * cos(rth + b))), ry + int(round(d * sin(rth + b)))) for
\* the beam (d, b) of point, b exact or rounded to its bearing key: for every
\* offset of Atan2Table and every heading the floating point evaluation gives
\* the cell of the point itself.
reconstruct(robot_pose, point) == <<point[1], point[2]>>

\* The loop of observe (lines 133-144) from the i-th object on; acc holds
\* objposes and beam_map.
RECURSIVE observe_loop(_, _, _, _, _, _)
observe_loop(sn, robot_pose, env, order, i, acc) ==
    IF i > Len(order)
    THEN acc
    ELSE LET objid == order[i]
             object_pose == env[objid].pose
             beam == shoot_beam(robot_pose, object_pose)
             acc1 ==
                 IF ~sn.occlusion_enabled
                 THEN IF valid_beam(sn, beam[1], beam[2])
                      THEN [acc EXCEPT !.objposes =
                               Put(acc.objposes, IdKey(objid),
                                   reconstruct(robot_pose, object_pose))]
                      ELSE acc
                 ELSE [acc EXCEPT !.beam_map =
                          build_beam_map(sn, beam, object_pose, acc.beam_map)]
         IN  observe_loop(sn, robot_pose, env, order, i + 1, acc1)

\* observe, lines 146-154: what is returned once the loop has left acc.
observe_return(sn, robot_pose, acc) ==
    LET bm == acc.beam_map
    IN  [objposes |->
            IF sn.occlusion_enabled
            THEN [k \in {PointKey(bm[key][2]) : key \in DOMAIN bm} |->
                     reconstruct(robot_pose, Tail(k))]
            ELSE acc.objposes,
         beam_map |-> bm]

\* The Observation observe builds from the beam map it starts the loop with.
observe_from(sn, beam_map0, robot_pose, env, order) ==
    observe_return(sn, robot_pose,
                   observe_loop(sn, robot_pose, env, order, 1,
                                [objposes |-> EmptyDict, beam_map |-> beam_map0]))

\* A beam map handed from call to call instead of a fresh one.
observe_shared_beam_map(sn, default_map, robot_pose, env, order) ==
    LET r == observe_from(sn, default_map, robot_pose, env, order)
    IN  [val |-> r.objposes, beam_map_default |-> r.beam_map]

\* Laser2DSensor.observe(robot_pose, env_state): val is the MosObservation
\* returned; order is the order env_state.object_states is iterated in.
\* The loop starts from its own beam_map = {} and hands it to
\* _build_beam_map, whose default dict is left as it is.
observe(sn, default_map, robot_pose, env, order) ==
    LET r == observe_from(sn, EmptyDict, robot_pose, env, order)
    IN  [val |-> r.objposes, beam_map_default |-> default_map]

\* ----------------------------------------------------- transition models
\* A static model that looks its state up under the robot's id.
StaticObjectTransitionModel_argmax_robot(objid, s, a) ==
    [exc |-> None, val |-> s[robot_id]]

\* A name bound to the object itself: what is written through it is written
\* to the object.
same_object(obj) == [alias |-> TRUE, val |-> obj]

\* copy.deepcopy(obj): a value of its own, sharing nothing with obj.
deepcopy(obj) == [alias |-> FALSE, val |-> obj]

\* StaticObjectTransitionModel.argmax(state, action), of the model of objid
StaticObjectTransitionModel_argmax(objid, s, a) ==
    [exc |-> None, val |-> s[objid]]

\* StaticObjectTransitionModel.sample(state, action)
StaticObjectTransitionModel_sample(objid, s, a) ==
    StaticObjectTransitionModel_argmax(objid, s, a)

\* A transition that starts from a robot state with nothing found.
reset_camera_and_found(robot_state) ==
    [robot_state EXCEPT !.camera_direction = None, !.objects_found = {}]

\* A transition that leaves the camera direction of the state it copies.
keep_camera(robot_state) == robot_state

\* argmax, lines 135-136: the copy of the robot state every action starts
\* from, its camera direction cleared.
reset_camera(robot_state) == [robot_state EXCEPT !.camera_direction = None]

\* A Find that adds nothing.
found_unchanged(objects_found, objects) == objects_found

\* A Find that keeps only what it sees now.
found_replaced(objects_found, objects) == objects

\* argmax, line 157: tuple(set(objects_found) | set(objects))
found_after_find(objects_found, objects) == objects_found \cup objects

\* argmax, lines 138-158: the branch of the action, applied to the copy
\* next_robot_state; state and its robot entry are read, not written.
apply_action(sn, s, next_robot_state, a) ==
    LET robot_state == s[robot_id]
    IN  IF a.type = "Motion"
        THEN LET moved == if_move_by(s, a, TRUE)
             IN  IF moved.exc # None
                 THEN [exc |-> moved.exc, val |-> robot_state]
                 ELSE [exc |-> None,
                       val |-> [next_robot_state EXCEPT !.pose = moved.val]]
        ELSE IF a.type = "Look"
        THEN LET moved == IF a.motion # <<>>
                          THEN if_move_by(s, a, TRUE)
                          ELSE [exc |-> None, val |-> next_robot_state.pose]
             IN  IF moved.exc # None
                 THEN [exc |-> moved.exc, val |-> robot_state]
                 ELSE [exc |-> None,
                       val |-> [next_robot_state EXCEPT !.pose = moved.val,
                                                        !.camera_direction = a.name]]
        ELSE IF a.type = "Find"
        THEN LET objects == objects_within_view_range(sn, robot_state.pose,
                                                      object_poses(s))
             IN  [exc |-> None,
                  val |-> [next_robot_state EXCEPT
                              !.objects_found =
                                  found_after_find(next_robot_state.objects_found, objects)]]
        ELSE [exc |-> None, val |-> next_robot_state]

\* RobotTransitionModel.argmax(state, action)
RobotTransitionModel_argmax(sn, s, a) ==
    apply_action(sn, s, reset_camera(s[robot_id]), a)

\* A sample that hands back the robot state it was given.
RobotTransitionModel_sample_stale(sn, s, a) == [exc |-> None, val |-> s[robot_id]]

\* RobotTransitionModel.sample(state, action)
RobotTransitionModel_sample(sn, s, a) ==
    RobotTransitionModel_argmax(sn, s, a)

\* pomdp_py.OOTransitionModel.sample / argmax: every entity's own model is
\* asked for its next state (argmax = TRUE: its argmax), and the results
\* are assembled under the same ids.
OOTransitionModel_sample(sn, s, a, argmax) ==
    LET next(objid) ==
            IF objid = robot_id
            THEN IF argmax THEN RobotTransitionModel_argmax(sn, s, a)
                           ELSE RobotTransitionModel_sample(sn, s, a)
            ELSE IF argmax THEN StaticObjectTransitionModel_argmax(objid, s, a)
                           ELSE StaticObjectTransitionModel_sample(objid, s, a)
        raised == {objid \in DOMAIN s : next(objid).exc # None}
    IN  IF raised # {}
        THEN [exc |-> next(CHOOSE objid \in raised : TRUE).exc, val |-> s]
        ELSE [exc |-> None, val |-> [objid \in DOMAIN s |-> next(objid).val]]

\* MosTransitionModel.sample(state, action)
MosTransitionModel_sample(sn, s, a) == OOTransitionModel_sample(sn, s, a, FALSE)

\* MosTransitionModel.argmax(state, action)
MosTransitionModel_argmax(sn, s, a) == OOTransitionModel_sample(sn, s, a, TRUE)

\* epsilon=1e-9 and 1.0, in units of 1e-9.
Epsilon == 1
One == 1000000000

\* StaticObjectTransitionModel.probability(next_object_state, state, action),
\* of the model of objid: the state compared with is looked up under the
\* id the candidate carries.
StaticObjectTransitionModel_probability(objid, next_object_state, s, a) ==
    IF next_object_state.id \notin DOMAIN s
    THEN [exc |-> "KeyError", val |-> 0]
    ELSE IF next_object_state # s[next_object_state.id]
    THEN [exc |-> None, val |-> Epsilon]
    ELSE [exc |-> None, val |-> One - Epsilon]

\* RobotTransitionModel.probability(next_robot_state, state, action)
RobotTransitionModel_probability(sn, next_robot_state, s, a) ==
    LET r == RobotTransitionModel_argmax(sn, s, a)
    IN  IF r.exc # None
        THEN [exc |-> r.exc, val |-> 0]
        ELSE IF next_robot_state # r.val
        THEN [exc |-> None, val |-> Epsilon]
        ELSE [exc |-> None, val |-> One - Epsilon]

\* ------------------------------------------------------------ the worlds
Cells == (0 .. Width - 1) \X (0 .. Length - 1)

\* Where the static objects stand: distinct cells.
Layouts ==
    {l \in [ObjIds -> Cells] :
        /\ l["t1"] # l["t2"]
        /\ l["t1"] \in {<<1, 0>>, <<1, 1>>}
        /\ l["t2"] \in {<<2, 2>>}}

\* The joint states an episode starts from: the robot on a free cell with
\* a heading in [0, 2*pi), nothing found, the camera idle.
InitialStates ==
    {[objid \in Ids |->
         IF objid = robot_id
         THEN RobotState(robot_id, <<c[1], c[2], th>>, {}, None)
         ELSE ObjectState(objid, "target", l[objid])] :
        <<l, c, th>> \in {t \in Layouts \X Cells \X (0 .. TwoPi - 1) :
                             \A objid \in ObjIds : t[1][objid] # t[2]}}

\* The sensor of the transition model: min_range 1, max_range 2.
TransitionSensor == Sensor(1, 2, FALSE)

NoCall == [robot_pose |-> <<>>, env |-> <<>>, order |-> <<>>]

\* A sensor that has not observed yet.
SensorIdle ==
    /\ beam_map_default = EmptyDict
    /\ obs_in = NoCall
    /\ obs_out = EmptyDict
    /\ first_in = NoCall
    /\ first_out = EmptyDict
    /\ between = FALSE

NoLikelihood ==
    [model |-> None, candidate |-> <<>>, action |-> OtherAction, exc |-> None, val |-> 0]

NoThreads == <<>>

\* No probability call made, no call in progress.
CallsIdle ==
    /\ likelihood = NoLikelihood
    /\ threads = NoThreads

Init ==
    /\ state \in InitialStates
    /\ prev_state = state
    /\ action = OtherAction
    /\ op = "init"
    /\ outcome = None
    /\ sensor = TransitionSensor
    /\ SensorIdle
    /\ CallsIdle

\* One call of MosTransitionModel.sample; the caller moves on to the state
\* returned, and keeps its state when the call raises.
Sample(a) ==
    LET r == MosTransitionModel_sample(sensor, state, a)
    IN  /\ prev_state' = state
        /\ action' = a
        /\ op' = "sample"
        /\ outcome' = r.exc
        /\ state' = r.val
        /\ UNCHANGED <<sensor, sensor_vars, call_vars>>

\* One call of MosTransitionModel.argmax.
Argmax(a) ==
    LET r == MosTransitionModel_argmax(sensor, state, a)
    IN  /\ prev_state' = state
        /\ action' = a
        /\ op' = "argmax"
        /\ outcome' = r.exc
        /\ state' = r.val
        /\ UNCHANGED <<sensor, sensor_vars, call_vars>>

Next ==
    \/ \E a \in Actions : Sample(a)
    \/ \E a \in Actions : Argmax(a)

Spec == Init /\ [][Next]_vars

\* ------------------------------------------------- likelihood queries
\* The candidate next states a caller scores: the entities' current states,
\* the robot's deterministic outcome, and object t1 on another cell.
CandidateStates(s, a) ==
    {s[objid] : objid \in Ids}
        \cup {RobotTransitionModel_argmax(sensor, s, a).val}
        \cup {ObjectState("t1", "target", <<0, 2>>)}

\* One call of probability on the model of entity model.
Probability(model, next_state, a) ==
    LET r == IF model = robot_id
             THEN RobotTransitionModel_probability(sensor, next_state, state, a)
             ELSE StaticObjectTransitionModel_probability(model, next_state, state, a)
    IN  /\ likelihood' = [model |-> model, candidate |-> next_state, action |-> a,
                          exc |-> r.exc, val |-> r.val]
        /\ UNCHANGED <<transition_vars, sensor, sensor_vars, threads>>

LikelihoodNext ==
    \E model \in Ids : \E a \in Actions : \E next_state \in CandidateStates(state, a) :
        Probability(model, next_state, a)

LikelihoodSpec == Init /\ [][LikelihoodNext]_vars

\* ----------------------------------------------------- concurrent calls
\* Calls made by two callers on one joint state, interleaved statement by
\* statement.  state is the object all of them were handed; each call has
\* its own locals in threads[t].
Threads == {1, 2}

IdleThread ==
    [kind |-> None, pc |-> "idle", action |-> OtherAction,
     next_robot_state |-> NoState, alias |-> FALSE,
     robot_pose |-> <<>>, i |-> 0,
     acc |-> [objposes |-> EmptyDict, beam_map |-> EmptyDict],
     result |-> NoState, overlapped |-> FALSE]

\* The actions the concurrent callers try.
ConcurrentActions ==
    {MotionAction("xy", <<0, 1, 1>>), FindAction,
     LookAction("look", None, <<>>, FALSE),
     LookAction("look+thz", "xy", <<0, 0, 1>>, FALSE)}

\* The joint states they are handed.
ConcurrentStates ==
    {s \in InitialStates :
        /\ s["t1"].pose = <<1, 0>>
        /\ s[robot_id].pose \in {<<0, 0, 0>>, <<0, 1, 0>>}}

\* env_state.object_states is iterated in insertion order.
ObserveOrder == <<robot_id, "t1", "t2">>

ConcurrentInit ==
    /\ state \in ConcurrentStates
    /\ prev_state = state
    /\ action = OtherAction
    /\ op = "init"
    /\ outcome = None
    /\ sensor \in {Sensor(1, 2, FALSE), Sensor(1, 2, TRUE)}
    /\ SensorIdle
    /\ likelihood = NoLikelihood
    /\ threads = [t \in Threads |-> IdleThread]

InProgress(t) == threads[t].pc \notin {"idle", "done"}

\* Thread t moves on to th, leaving its statement while another call is
\* in progress or not.
Step(t, th) ==
    threads' = [threads EXCEPT ![t] =
                   [th EXCEPT !.overlapped =
                       (threads[t].overlapped \/ \E u \in Threads \ {t} : InProgress(u))]]

\* What thread t's name next_robot_state denotes.
NextRobotState(t) ==
    IF threads[t].alias THEN state[robot_id] ELSE threads[t].next_robot_state

\* next_robot_state[...] = ... by thread t: the object the name denotes
\* takes the value v.
Assign(t, pc, v) ==
    IF threads[t].alias
    THEN /\ state' = [state EXCEPT ![robot_id] = v]
         /\ Step(t, [threads[t] EXCEPT !.pc = pc])
    ELSE /\ state' = state
         /\ Step(t, [threads[t] EXCEPT !.pc = pc, !.next_robot_state = v])

\* Thread t calls sample or argmax of the composite model on state.
CallTransition(t, kind, a) ==
    /\ threads[t].pc = "idle"
    /\ Step(t, [threads[t] EXCEPT !.kind = kind, !.action = a, !.pc = "copy"])
    /\ UNCHANGED <<transition_vars, sensor, sensor_vars, likelihood>>

\* argmax, lines 133-135: next_robot_state = copy.deepcopy(robot_state)
CopyRobotState(t) ==
    /\ threads[t].pc = "copy"
    /\ LET c == deepcopy(state[robot_id])
       IN  Step(t, [threads[t] EXCEPT !.pc = "reset", !.alias = c.alias,
                                      !.next_robot_state = c.val])
    /\ UNCHANGED <<transition_vars, sensor, sensor_vars, likelihood>>

\* argmax, line 136: next_robot_state['camera_direction'] = None
ResetCamera(t) ==
    /\ threads[t].pc = "reset"
    /\ Assign(t, "apply", reset_camera(NextRobotState(t)))
    /\ UNCHANGED <<prev_state, action, op, outcome, sensor, sensor_vars, likelihood>>

\* argmax, lines 138-157: the branch of the action.
ApplyAction(t) ==
    /\ threads[t].pc = "apply"
    /\ LET r == apply_action(sensor, state, NextRobotState(t), threads[t].action)
       IN  IF r.exc # None
           THEN /\ Step(t, [threads[t] EXCEPT !.pc = "done",
                                              !.result = [exc |-> r.exc, val |-> NoState]])
                /\ state' = state
           ELSE Assign(t, "return", r.val)
    /\ UNCHANGED <<prev_state, action, op, outcome, sensor, sensor_vars, likelihood>>

\* argmax, line 158, and the composite model's assembly: the robot's next
\* state and a copy of every static object's state.
ReturnNextState(t) ==
    /\ threads[t].pc = "return"
    /\ LET next(objid) ==
               IF objid = robot_id
               THEN NextRobotState(t)
               ELSE IF threads[t].kind = "argmax"
                    THEN StaticObjectTransitionModel_argmax(objid, state, threads[t].action).val
                    ELSE StaticObjectTransitionModel_sample(objid, state, threads[t].action).val
       IN  Step(t, [threads[t] EXCEPT
                       !.pc = "done",
                       !.result = [exc |-> None,
                                   val |-> [objid \in DOMAIN state |-> next(objid)]]])
    /\ UNCHANGED <<transition_vars, sensor, sensor_vars, likelihood>>

\* Thread t calls sensor.observe(robot_pose, state): lines 128-132.
CallObserve(t) ==
    /\ threads[t].pc = "idle"
    /\ Step(t, [threads[t] EXCEPT !.kind = "observe", !.pc = "loop", !.i = 1,
                                  !.robot_pose = pose_of(state, robot_id)])
    /\ UNCHANGED <<transition_vars, sensor, sensor_vars, likelihood>>

\* observe, lines 133-144: one pass of the loop.
ObserveObject(t) ==
    /\ threads[t].pc = "loop"
    /\ threads[t].i <= Len(ObserveOrder)
    /\ Step(t, [threads[t] EXCEPT
                    !.i = @ + 1,
                    !.acc = observe_loop(sensor, threads[t].robot_pose, state,
                                         <<ObserveOrder[threads[t].i]>>, 1, @)])
    /\ UNCHANGED <<transition_vars, sensor, sensor_vars, likelihood>>

\* observe, lines 146-154: the Observation is built and returned.
ReturnObservation(t) ==
    /\ threads[t].pc = "loop"
    /\ threads[t].i > Len(ObserveOrder)
    /\ Step(t, [threads[t] EXCEPT
                    !.pc = "done",
                    !.result = [exc |-> None,
                                val |-> observe_return(sensor, threads[t].robot_pose,
                                                       threads[t].acc).objposes]])
    /\ UNCHANGED <<transition_vars, sensor, sensor_vars, likelihood>>

ConcurrentNext ==
    \E t \in Threads :
        \/ \E kind \in {"sample", "argmax"} : \E a \in ConcurrentActions :
               CallTransition(t, kind, a)
        \/ CopyRobotState(t)
        \/ ResetCamera(t)
        \/ ApplyAction(t)
        \/ ReturnNextState(t)
        \/ CallObserve(t)
        \/ ObserveObject(t)
        \/ ReturnObservation(t)

ConcurrentSpec == ConcurrentInit /\ [][ConcurrentNext]_vars

\* ------------------------------------------------- the sensor on its own
\* The sensors observe is exercised with.
SensorConfigs ==
    {Sensor(1, 2, FALSE), Sensor(2, 2, FALSE), Sensor(1, 2, TRUE)}

\* Layouts with both objects on one ray from a corner, one without, and one
\* with both objects handed to the sensor on the same cell.
SensorLayouts ==
    {l \in [ObjIds -> Cells] :
        <<l["t1"], l["t2"]>> \in {<< <<1, 0>>, <<2, 0>> >>, << <<2, 2>>, <<1, 1>> >>,
                                  << <<0, 1>>, <<2, 1>> >>, << <<1, 1>>, <<1, 1>> >>}}

SensorInitialStates ==
    {[objid \in Ids |->
         IF objid = robot_id
         THEN RobotState(robot_id, <<c[1], c[2], th>>, {}, None)
         ELSE ObjectState(objid, "target", l[objid])] :
        <<l, c, th>> \in {t \in SensorLayouts \X Cells \X (0 .. TwoPi - 1) :
                             \A objid \in ObjIds : t[1][objid] # t[2]}}

SensorInit ==
    /\ state \in SensorInitialStates
    /\ prev_state = state
    /\ action = OtherAction
    /\ op = "init"
    /\ outcome = None
    /\ sensor \in SensorConfigs
    /\ SensorIdle
    /\ CallsIdle

\* The orders a dict holding the ids S may be iterated in.
Orders(S) ==
    {o \in [1 .. Cardinality(S) -> S] : \A i, j \in DOMAIN o : o[i] = o[j] => i = j}

\* The non-robot ids of an observe call.
ObjectsOf(call) == (DOMAIN call.env) \ {robot_id}

\* One call of sensor.observe on the robot's pose and a joint state holding
\* the robot and the objects ids, iterated in some order.
Observe(ids, order) ==
    LET env == [objid \in ids \cup {robot_id} |-> state[objid]]
        robot_pose == pose_of(state, robot_id)
        call == [robot_pose |-> robot_pose, env |-> env, order |-> order]
        r == observe(sensor, beam_map_default, robot_pose, env, order)
    IN  /\ obs_in' = call
        /\ obs_out' = r.val
        /\ beam_map_default' = r.beam_map_default
        /\ first_in' = IF first_in = NoCall THEN call ELSE first_in
        /\ first_out' = IF first_in = NoCall THEN r.val ELSE first_out
        /\ between' = (between \/ (/\ first_in # NoCall
                                    /\ ids # {}
                                    /\ ObjectsOf(first_in) # {}
                                    /\ ids \cap ObjectsOf(first_in) = {}))
        /\ UNCHANGED <<transition_vars, sensor, call_vars>>

SensorNext ==
    \E ids \in SUBSET ObjIds : \E order \in Orders(ids \cup {robot_id}) :
        Observe(ids, order)

SensorSpec == SensorInit /\ [][SensorNext]_vars

\* ============================================================== claims
\* What the last transition call was given and what it returned.
Called == op # "init"
Returned == Called /\ outcome = None
robot_prev == prev_state[robot_id]
robot_next == state[robot_id]
candidate == candidate_pose(robot_prev.pose, action)

\* The candidate pose is inside the world, written out: 0 <= x < width,
\* 0 <= y < length, 0 <= theta <= 2*pi.
InWorld(pose) ==
    /\ 0 <= pose[1] /\ pose[1] < Width
    /\ 0 <= pose[2] /\ pose[2] < Length
    /\ 0 <= pose[3] /\ pose[3] <= TwoPi

\* The cell of the pose is the cell of a static object of joint state s.
OnObject(pose, s) == \E objid \in ObjIds : s[objid].pose = <<pose[1], pose[2]>>

\* C1 - Boundary invariant: the robot pose of the state a transition
\* returns, for any action, has 0 <= x < width, 0 <= y < length and
\* 0 <= theta <= 2*pi.
C1_BoundaryInvariant == Returned => InWorld(robot_next.pose)

\* A motion whose candidate pose leaves the grid was applied.
C1_Witness ==
    /\ Returned
    /\ IsMotionAction(action)
    /\ ~(0 <= candidate[1] /\ candidate[1] < Width /\ 0 <= candidate[2] /\ candidate[2] < Length)

\* C2 - Collision invariant: in the state a transition returns, the robot's
\* (x, y) is the (x, y) of no other object.
C2_CollisionInvariant == Returned => ~OnObject(robot_next.pose, state)

\* A motion whose candidate cell holds an object was applied.
C2_Witness ==
    /\ Returned
    /\ IsMotionAction(action)
    /\ OnObject(candidate, prev_state)

\* C3 - Monotone discovery: over every transition (Motion, Look, Find, any
\* other action) objects_found of the next state holds objects_found of the
\* previous state.
C3_MonotoneDiscovery ==
    Returned => robot_prev.objects_found \subseteq robot_next.objects_found

\* A Find was applied where an object found earlier is out of view.
C3_Witness ==
    /\ Returned
    /\ action.type = "Find"
    /\ \E objid \in robot_prev.objects_found :
           objid \notin objects_within_view_range(sensor, robot_prev.pose,
                                                  object_poses(prev_state))

C4_RejectedLook ==
    /\ Returned
    /\ action.type = "Look"
    /\ action.motion # <<>>
    /\ ~InWorld(candidate)
    /\ robot_next.pose = robot_prev.pose
    /\ robot_next.camera_direction = action.name

\* A Look with a rotation, of a class that is no MotionAction, was refused
\* by _if_move_by: the call raised and the caller has no next state.
LookRefused == Called /\ action.type = "Look" /\ outcome = "ValueError"

\* C8 - Invalid action rejection: a transition given an action that is none
\* of Motion, Look, Find raises and returns no next state.
C8_InvalidActionRejected ==
    (Called /\ action.type \notin {"Motion", "Look", "Find"}) => outcome # None

C10_SampleIsArgmax ==
    op = "sample" =>
        /\ [exc |-> outcome, val |-> state]
              = MosTransitionModel_argmax(sensor, prev_state, action)
        /\ RobotTransitionModel_sample(sensor, prev_state, action)
              = RobotTransitionModel_argmax(sensor, prev_state, action)
        /\ \A objid \in ObjIds :
              StaticObjectTransitionModel_sample(objid, prev_state, action)
                = StaticObjectTransitionModel_argmax(objid, prev_state, action)

\* A sample that changed the joint state.
C10_Witness == op = "sample" /\ outcome = None /\ state # prev_state

\* ------------------------------------------------------- sensor claims
Observed == obs_in # NoCall

\* The beam of object objid in the last observe call.
BeamOf(objid) == shoot_beam(obs_in.robot_pose, obs_in.env[objid].pose)

\* The beam is out of range, out of the field of view or off the beam set.
Excluded(beam) ==
    \/ beam[1] < sensor.min_range * sensor.min_range
    \/ beam[1] > sensor.max_range * sensor.max_range
    \/ ~in_field_of_view(beam[2])
    \/ Round2(beam[2]) \notin Beams

Reported(objid) == IdKey(objid) \in DOMAIN obs_out

\* C5 - Sensor range/FOV exclusion: in either occlusion mode, an object
\* whose distance is below min_range or above max_range, or whose bearing
\* is outside the field of view or off the beam set, is not in the
\* Observation.
C5_RangeFovExclusion ==
    Observed => \A objid \in ObjectsOf(obs_in) : Excluded(BeamOf(objid)) => ~Reported(objid)

\* C6 - Occlusion nearest-wins: with occlusion enabled, of two objects on
\* the same rounded bearing with distances d1 < d2 the Observation holds
\* the id of the nearer and not the id of the farther, in any order.
C6_OcclusionNearestWins ==
    (Observed /\ sensor.occlusion_enabled) =>
        \A o1, o2 \in ObjectsOf(obs_in) :
            (/\ Round2(BeamOf(o1)[2]) = Round2(BeamOf(o2)[2])
             /\ BeamOf(o1)[1] < BeamOf(o2)[1])
            => (Reported(o1) /\ ~Reported(o2))

\* C7 - No cross-call leakage: the default beam map stays empty, and an
\* observe call given what the first call on the sensor was given returns
\* what the first call returned, whatever was observed in between.
C7_NoCrossCallLeakage ==
    /\ beam_map_default = EmptyDict
    /\ (Observed /\ obs_in = first_in) => obs_out = first_out

\* observe(A), observe(B) on a disjoint set of objects, observe(A) again,
\* with occlusion enabled and something in A's Observation.
C7_Witness ==
    /\ Observed
    /\ sensor.occlusion_enabled
    /\ between
    /\ obs_in = first_in
    /\ ObjectsOf(obs_in) # {}
    /\ obs_out # EmptyDict

\* ------------------------------------------- transition claims, continued
\* C11 - Composite transition frame: the joint state the composite model
\* returns has the ids of the input, one RobotState entry, under the robot
\* id, and every other entry (id, class, pose) as it was in the input.
C11_CompositeFrame ==
    Returned =>
        /\ DOMAIN state = DOMAIN prev_state
        /\ {objid \in DOMAIN state : state[objid].objclass = "robot"} = {robot_id}
        /\ robot_next.id = robot_id
        /\ \A objid \in (DOMAIN state) \ {robot_id} : state[objid] = prev_state[objid]

\* The composite model moved the robot.
C11_Witness ==
    /\ Returned
    /\ action.type = "Motion"
    /\ <<robot_next.pose[1], robot_next.pose[2]>> # <<robot_prev.pose[1], robot_prev.pose[2]>>

\* C12 - Pose-bounds invariant: after any sequence of transitions every
\* pose lies in [0,width) x [0,length) and the robot's theta in [0, 2*pi),
\* strictly below 2*pi also after an xy Motion that sets theta.
C12_PoseBounds ==
    /\ \A objid \in ObjIds :
          /\ 0 <= state[objid].pose[1] /\ state[objid].pose[1] < Width
          /\ 0 <= state[objid].pose[2] /\ state[objid].pose[2] < Length
    /\ 0 <= robot_next.pose[1] /\ robot_next.pose[1] < Width
    /\ 0 <= robot_next.pose[2] /\ robot_next.pose[2] < Length
    /\ 0 <= robot_next.pose[3] /\ robot_next.pose[3] < TwoPi

\* The objects in view of the robot before the last action.
in_view_before ==
    objects_within_view_range(sensor, robot_prev.pose, object_poses(prev_state))

\* C15 - Find result: after a Find, objects_found is what it was united
\* with the non-robot objects the visibility predicate reports for the
\* pose before the action; the robot id is never in it.
C15_FindResult ==
    /\ robot_id \notin robot_next.objects_found
    /\ (Returned /\ action.type = "Find") =>
          robot_next.objects_found = robot_prev.objects_found \cup in_view_before

\* A Find that kept an object found earlier and added one in view.
C15_Witness ==
    /\ Returned
    /\ action.type = "Find"
    /\ robot_prev.objects_found # {}
    /\ in_view_before \ robot_prev.objects_found # {}
    /\ robot_prev.objects_found \ in_view_before # {}

\* math.sin of a heading given in quarter turns.
Sin(th) == Cos(th - 1)

\* The pose the odometry of the vw scheme asks for: theta + angle (mod
\* 2*pi), forward projected along the new heading.
vw_pose ==
    LET th == robot_prev.pose[3] + action.motion[2]
        forward == action.motion[1]
    IN  <<robot_prev.pose[1] + forward * Cos(th),
          robot_prev.pose[2] + forward * Sin(th),
          th % TwoPi>>

\* C19 - vw (odometry) motion: a Motion (forward, angle) asks for
\* theta' = (theta + angle) mod 2*pi, x' = round(x + forward*cos(theta')),
\* y' = round(y + forward*sin(theta')), and the robot is there after the
\* action when that pose is valid (and where it was when it is not).
C19_OdometryMotion ==
    (Returned /\ action.type = "Motion" /\ action.scheme = "vw") =>
        robot_next.pose =
            IF InWorld(vw_pose) /\ ~OnObject(vw_pose, prev_state)
            THEN vw_pose
            ELSE robot_prev.pose

\* C20 - Per-action frame: Motion and Look leave objects_found as it was,
\* Find and a Look without rotation leave the pose as it was, an action of
\* no known kind leaves both, and no action changes the robot's id or class.
C20_ActionFrame ==
    Returned =>
        /\ robot_next.id = robot_prev.id
        /\ robot_next.objclass = robot_prev.objclass
        /\ action.type \in {"Motion", "Look", "Other"} =>
              robot_next.objects_found = robot_prev.objects_found
        /\ (action.type \in {"Find", "Other"} \/ (action.type = "Look" /\ action.motion = <<>>)) =>
              robot_next.pose = robot_prev.pose

\* A Motion moved a robot that had found something, and a Find was applied
\* to a robot with a heading other than 0: the first is this state.
C20_Witness ==
    /\ Returned
    /\ action.type = "Motion"
    /\ robot_prev.objects_found # {}
    /\ robot_next.pose # robot_prev.pose
    /\ robot_next.objects_found = robot_prev.objects_found

\* --------------------------------------------- sensor claims, continued
\* Object o1 was visited before o2 by the loop of the last observe call.
ProcessedBefore(o1, o2) ==
    \E i, j \in DOMAIN obs_in.order :
        i < j /\ obs_in.order[i] = o1 /\ obs_in.order[j] = o2

\* Two objects of the last call on one bearing key at one distance.
Tied(o1, o2) ==
    /\ o1 # o2
    /\ Round2(BeamOf(o1)[2]) = Round2(BeamOf(o2)[2])
    /\ BeamOf(o1)[1] = BeamOf(o2)[1]

\* C16 - Beam-map tie-break: with occlusion enabled, of two objects on the
\* same bearing key at exactly equal distance the one processed first keeps
\* the beam-map entry and is the one the Observation reports.
C16_TieBreakFirstStays ==
    (Observed /\ sensor.occlusion_enabled) =>
        \A o1, o2 \in ObjectsOf(obs_in) :
            (Tied(o1, o2) /\ ProcessedBefore(o1, o2))
            => (Reported(o1) /\ ~Reported(o2))

\* C17 - Robot is not sensed: in either mode the Observation holds no entry
\* for the robot, neither under its id nor as the nearest point of a beam.
C17_RobotNotSensed ==
    Observed =>
        /\ ~Reported(robot_id)
        /\ PointKey(obs_in.robot_pose) \notin DOMAIN obs_out

\* C18 - No-occlusion completeness: with occlusion disabled every non-robot
\* object within [min_range, max_range], inside the field of view and on
\* the beam set is in the Observation, whatever else shares its bearing.
C18_NoOcclusionCompleteness ==
    (Observed /\ ~sensor.occlusion_enabled) =>
        \A objid \in ObjectsOf(obs_in) : ~Excluded(BeamOf(objid)) => Reported(objid)

\* ---------------------------------------------------- likelihood claims
Scored == likelihood.model # None /\ likelihood.exc = None

\* The deterministic outcome of the model the last probability call was
\* made on: of the robot model, or of the static model's own object.
OutcomeOfModel ==
    IF likelihood.model = robot_id
    THEN RobotTransitionModel_argmax(sensor, state, likelihood.action).val
    ELSE StaticObjectTransitionModel_argmax(likelihood.model, state, likelihood.action).val

\* C13 - Likelihood scoring: probability(candidate, state, action) is
\* 1 - epsilon exactly when the candidate equals the argmax of the model it
\* is asked of (for a static model: the current state of the model's own
\* object) and epsilon otherwise; it is never 0.
C13_LikelihoodScoring ==
    Scored =>
        /\ likelihood.val # 0
        /\ likelihood.val =
               IF likelihood.candidate = OutcomeOfModel THEN One - Epsilon ELSE Epsilon

\* --------------------------------------------------- concurrency claims
\* What the call of thread t returns when it is the only call made on the
\* joint state the callers were handed.
Alone(t) ==
    LET th == threads[t]
        r == IF th.kind = "sample"
             THEN MosTransitionModel_sample(sensor, prev_state, th.action)
             ELSE IF th.kind = "argmax"
             THEN MosTransitionModel_argmax(sensor, prev_state, th.action)
             ELSE [exc |-> None,
                   val |-> observe(sensor, EmptyDict, pose_of(prev_state, robot_id),
                                   prev_state, ObserveOrder).val]
    IN  [exc |-> r.exc, val |-> IF r.exc = None THEN r.val ELSE NoState]

\* C14 - Reentrancy: under every interleaving of concurrent sample, argmax
\* and observe calls on one joint state, every call returns what it returns
\* alone, and the joint state (and the sensor's default beam map) is as it
\* was handed in.
C14_Reentrancy ==
    threads # NoThreads =>
        /\ state = prev_state
        /\ beam_map_default = EmptyDict
        /\ \A t \in Threads : threads[t].pc = "done" => threads[t].result = Alone(t)

\* A Motion sample that moved the robot and an observe that saw something,
\* each finished after running while the other was in progress.
C14_Witness ==
    /\ threads # NoThreads
    /\ \A t \in Threads : threads[t].pc = "done" /\ threads[t].overlapped
    /\ threads[1].kind = "sample"
    /\ threads[1].action.type = "Motion"
    /\ threads[1].result.exc = None
    /\ threads[1].result.val[robot_id].pose # prev_state[robot_id].pose
    /\ threads[2].kind = "observe"
    /\ threads[2].result.val # EmptyDict

====
